---- MODULE Spec2Model ----
(***************************************************************************)
(* Model of revm's call-frame construction (EvmContext::make_call_frame),  *)
(* the journaled state it drives, and the L1 / L2 SpecId registries.       *)
(***************************************************************************)
EXTENDS Integers, Sequences, FiniteSets, TLC

(***************************************************************************)
(* Bounds of the model.                                                    *)
(***************************************************************************)
\* number of make_call_frame / frame-return / set_precompiles steps explored
MaxCalls == 1

(***************************************************************************)
(* Program constants and the small input domains.                          *)
(***************************************************************************)
CALL_STACK_LIMIT == 1024

MOCK_CALLER == "0x0000"
CONTRACT == "0xdead"
ABSENT == "0x0009"

Address == {MOCK_CALLER, CONTRACT, ABSENT}

\* bytecode 60 00 60 00 of test_make_call_frame_succeeds
MockBytecode == <<96, 0, 96, 0>>

EmptyBytes == <<>>

\* code hash as a tag over the hashed bytes: equal exactly for equal code
hash_slow(code) == <<"keccak">> \o code

(***************************************************************************)
(* The database behind the journaled state: CONTRACT has deployed code and *)
(* a balance of 1, the mock caller a balance of 1, ABSENT does not exist.   *)
(***************************************************************************)
DbCode(a) == IF a = CONTRACT THEN MockBytecode ELSE EmptyBytes

DbBalance(a) == IF a = ABSENT THEN 0 ELSE 1

\* Database::basic: the account header, or an error for the addresses in db_error
DbBasic(a) ==
    [balance |-> DbBalance(a), code_hash |-> hash_slow(DbCode(a)), code |-> DbCode(a)]

(***************************************************************************)
(* Gas                                                                     *)
(***************************************************************************)
Gas_new(limit) == [limit |-> limit, remaining |-> limit, refunded |-> 0]

\* returns <<success, gas'>>; on failure the remaining gas is consumed
record_cost(gas, cost) ==
    IF cost > gas.remaining
    THEN [success |-> FALSE, gas |-> [gas EXCEPT !.remaining = 0]]
    ELSE [success |-> TRUE, gas |-> [gas EXCEPT !.remaining = gas.remaining - cost]]

\* the return_ok!() pattern
return_ok == {"Continue", "Stop", "Return", "SelfDestruct", "ReturnContract"}

(***************************************************************************)
(* Journaled state.  js = [state, depth, journal, warm_preloaded_addresses]*)
(* state[a] = [present, warm, touched, balance]                            *)
(***************************************************************************)
NotLoaded == [present |-> FALSE, warm |-> FALSE, touched |-> FALSE, balance |-> 0]

JournaledState_new(warm_preloaded) ==
    [state |-> [a \in Address |-> NotLoaded],
     depth |-> 0,
     journal |-> << <<>> >>,
     warm_preloaded_addresses |-> warm_preloaded]

\* push an entry on the last journal frame
PushEntry(journal, entry) ==
    [journal EXCEPT ![Len(journal)] = Append(@, entry)]

\* JournaledState::depth
depth_of(js) == js.depth

\* load_account: ensures the account is present; a cold load is journaled
load_account(js, address, db_error) ==
    LET acc == js.state[address] IN
    IF acc.present
    THEN LET is_cold == ~acc.warm IN
         [err |-> FALSE, is_cold |-> is_cold,
          js |-> [js EXCEPT !.state[address].warm = TRUE,
                            !.journal = IF is_cold
                                        THEN PushEntry(@, <<"AccountWarmed", address>>)
                                        ELSE @]]
    ELSE IF address \in db_error
    THEN [err |-> TRUE, is_cold |-> FALSE, js |-> js]
    ELSE LET is_cold == address \notin js.warm_preloaded_addresses IN
         [err |-> FALSE, is_cold |-> is_cold,
          js |-> [js EXCEPT !.state[address] =
                                [present |-> TRUE, warm |-> TRUE, touched |-> FALSE,
                                 balance |-> DbBasic(address).balance],
                            !.journal = IF is_cold
                                        THEN PushEntry(@, <<"AccountWarmed", address>>)
                                        ELSE @]]

\* load_code: load_account, with the code of the account populated
load_code(js, address, db_error) ==
    LET r == load_account(js, address, db_error) IN
    [err |-> r.err, is_cold |-> r.is_cold, js |-> r.js,
     code_hash |-> DbBasic(address).code_hash,
     code |-> DbBasic(address).code]

\* touch: marks the account touched, journaled once
touch(js, address) ==
    IF js.state[address].touched
    THEN js
    ELSE [js EXCEPT !.state[address].touched = TRUE,
                    !.journal = PushEntry(@, <<"AccountTouched", address>>)]

\* checkpoint: returns the rollback point and opens a journal frame
checkpoint(js) ==
    [checkpoint |-> [journal_i |-> Len(js.journal)],
     js |-> [js EXCEPT !.depth = @ + 1, !.journal = Append(@, <<>>)]]

\* checkpoint_commit: the top journal frame is merged into the enclosing one
checkpoint_commit(js) ==
    LET n == Len(js.journal) IN
    [js EXCEPT !.depth = @ - 1,
               !.journal = IF n >= 2
                           THEN Append(SubSeq(@, 1, n - 2), @[n - 1] \o @[n])
                           ELSE @]

\* undo of one journal entry
journal_revert_entry(state, entry) ==
    IF entry[1] = "AccountWarmed"
    THEN [state EXCEPT ![entry[2]].warm = FALSE]
    ELSE IF entry[1] = "AccountTouched"
    THEN [state EXCEPT ![entry[2]].touched = FALSE]
    ELSE \* <<"BalanceTransfer", from, to, balance>>
         [state EXCEPT ![entry[2]].balance = @ + entry[4],
                       ![entry[3]].balance = @ - entry[4]]

\* undo of the entries of one journal frame, last entry first
RECURSIVE journal_revert(_, _)
journal_revert(state, entries) ==
    IF entries = <<>>
    THEN state
    ELSE journal_revert(journal_revert_entry(state, entries[Len(entries)]),
                        SubSeq(entries, 1, Len(entries) - 1))

\* undo of the journal frames above index journal_i, last frame first
RECURSIVE revert_frames(_, _, _)
revert_frames(state, journal, journal_i) ==
    IF Len(journal) <= journal_i
    THEN state
    ELSE revert_frames(journal_revert(state, journal[Len(journal)]),
                       SubSeq(journal, 1, Len(journal) - 1), journal_i)

\* checkpoint_revert: pops the entries down to the checkpoint, inverting each
checkpoint_revert(js, cp) ==
    [js EXCEPT !.depth = @ - 1,
               !.state = revert_frames(js.state, js.journal, cp.journal_i),
               !.journal = SubSeq(@, 1, cp.journal_i)]

\* transfer: loads both accounts; OutOfFunds when the sender's balance is
\* below the value, else debits / credits and journals a BalanceTransfer
transfer(js, from, to, balance, db_error) ==
    LET l1 == load_account(js, from, db_error)
        l2 == load_account(l1.js, to, db_error)
    IN  IF l1.err THEN [err |-> TRUE, address |-> from, result |-> "None", js |-> l1.js]
        ELSE IF l2.err THEN [err |-> TRUE, address |-> to, result |-> "None", js |-> l2.js]
        ELSE IF l2.js.state[from].balance < balance
        THEN [err |-> FALSE, address |-> from, result |-> "OutOfFunds", js |-> l2.js]
        ELSE LET t1 == touch(l2.js, from)
                 t2 == touch(t1, to)
             IN  [err |-> FALSE, address |-> from, result |-> "None",
                  js |-> [t2 EXCEPT !.state[from].balance = @ - balance,
                                    !.state[to].balance = @ + balance,
                                    !.journal = PushEntry(@, <<"BalanceTransfer", from, to, balance>>)]]

(***************************************************************************)
(* Precompile registry and dispatcher.                                     *)
(***************************************************************************)
\* what a precompile routine can report
PrecompileOutcomes ==
    {[kind |-> "Ok", gas_used |-> g, bytes |-> <<7>>, msg |-> ""] : g \in {2, 3, 5}}
    \cup {[kind |-> "Error", gas_used |-> 0, bytes |-> EmptyBytes, msg |-> m] :
        m \in {"OutOfGas", "Other"}}
    \cup {[kind |-> "Fatal", gas_used |-> 0, bytes |-> EmptyBytes, msg |-> "fatal"]}

NoOutcome == [kind |-> "None", gas_used |-> 0, bytes |-> EmptyBytes, msg |-> ""]

\* PrecompileError::is_oog
is_oog(outcome) == outcome.msg = "OutOfGas"

\* ContextPrecompiles::call: absent when the address is not in the registry
precompiles_call(registry, address, outcome) ==
    IF address \in registry THEN outcome ELSE NoOutcome

\* ContextPrecompiles::addresses_set
addresses_set(registry) == registry

(***************************************************************************)
(* EvmContext                                                              *)
(***************************************************************************)
\* the dispatcher, not looking at what record_cost answers
call_precompile_always_return(registry, address, input_data, gas, outcome) ==
    LET out == precompiles_call(registry, address, outcome) IN
    IF out.kind = "None"
    THEN [kind |-> "None"]
    ELSE IF out.kind = "Ok"
    THEN LET rc == record_cost(gas, out.gas_used) IN
         [kind |-> "Some",
          result |-> [result |-> "Return", gas |-> rc.gas, output |-> out.bytes]]
    ELSE IF out.kind = "Error"
    THEN [kind |-> "Some",
          result |-> [result |-> IF is_oog(out) THEN "PrecompileOOG" ELSE "PrecompileError",
                      gas |-> gas, output |-> EmptyBytes]]
    ELSE [kind |-> "Err", error |-> <<"Precompile", out.msg>>]

\* the dispatcher, reporting a fatal error as an ordinary precompile error
call_precompile_fatal_as_error(registry, address, input_data, gas, outcome) ==
    LET out == precompiles_call(registry, address, outcome) IN
    IF out.kind = "None"
    THEN [kind |-> "None"]
    ELSE IF out.kind = "Ok"
    THEN LET rc == record_cost(gas, out.gas_used) IN
         IF rc.success
         THEN [kind |-> "Some",
               result |-> [result |-> "Return", gas |-> rc.gas, output |-> out.bytes]]
         ELSE [kind |-> "Some",
               result |-> [result |-> "PrecompileOOG", gas |-> rc.gas, output |-> EmptyBytes]]
    ELSE [kind |-> "Some",
          result |-> [result |-> IF is_oog(out) THEN "PrecompileOOG" ELSE "PrecompileError",
                      gas |-> gas, output |-> EmptyBytes]]

\* EvmContext::call_precompile
call_precompile(registry, address, input_data, gas, outcome) ==
    LET out == precompiles_call(registry, address, outcome) IN
    IF out.kind = "None"
    THEN [kind |-> "None"]
    ELSE IF out.kind = "Ok"
    THEN LET rc == record_cost(gas, out.gas_used) IN
         IF rc.success
         THEN [kind |-> "Some",
               result |-> [result |-> "Return", gas |-> rc.gas, output |-> out.bytes]]
         ELSE [kind |-> "Some",
               result |-> [result |-> "PrecompileOOG", gas |-> rc.gas, output |-> EmptyBytes]]
    ELSE IF out.kind = "Error"
    THEN [kind |-> "Some",
          result |-> [result |-> IF is_oog(out) THEN "PrecompileOOG" ELSE "PrecompileError",
                      gas |-> gas, output |-> EmptyBytes]]
    ELSE [kind |-> "Err", error |-> <<"Precompile", out.msg>>]

\* the return_result closure of make_call_frame
return_result(inputs, gas, instruction_result) ==
    [kind |-> "Result",
     result |-> [result |-> instruction_result, gas |-> gas, output |-> EmptyBytes],
     memory_offset |-> inputs.return_memory_offset]

\* FrameOrResult::new_call_result
new_call_result(result, memory_offset) ==
    [kind |-> "Result", result |-> result, memory_offset |-> memory_offset]

\* Contract::new_with_context
Contract_new_with_context(input, bytecode, hash, inputs) ==
    [input |-> input, bytecode |-> bytecode, hash |-> hash,
     target_address |-> inputs.target_address,
     caller |-> inputs.caller,
     call_value |-> inputs.value.value]

\* Interpreter::new
Interpreter_new(contract, gas_limit, is_static) ==
    [contract |-> contract, gas |-> Gas_new(gas_limit), is_static |-> is_static]

\* FrameOrResult::new_call_frame
new_call_frame(return_memory_range, cp, interpreter) ==
    [kind |-> "Frame", return_memory_range |-> return_memory_range,
     checkpoint |-> cp, interpreter |-> interpreter]

\* the depth check, off by one
depth_exceeded_off_by_one(js) == depth_of(js) > CALL_STACK_LIMIT + 1

\* the depth check left out
depth_exceeded_unchecked(js) == FALSE

\* make_call_frame: the depth check
depth_exceeded(js) == depth_of(js) > CALL_STACK_LIMIT

\* the value step, forgetting to revert when the transfer fails
value_step_no_revert(js, inputs, cp, gas, db_error) ==
    IF inputs.value.kind = "Transfer" /\ inputs.value.value = 0
    THEN LET l == load_account(js, inputs.target_address, db_error) IN
         IF l.err
         THEN [status |-> "err", js |-> l.js,
               ret |-> [kind |-> "Err", error |-> <<"Database", inputs.target_address>>]]
         ELSE [status |-> "ok", js |-> touch(l.js, inputs.target_address), ret |-> [kind |-> "None"]]
    ELSE IF inputs.value.kind = "Transfer"
    THEN LET t == transfer(js, inputs.caller, inputs.target_address, inputs.value.value, db_error) IN
         IF t.err
         THEN [status |-> "err", js |-> t.js,
               ret |-> [kind |-> "Err", error |-> <<"Database", t.address>>]]
         ELSE IF t.result # "None"
         THEN [status |-> "result", js |-> t.js,
               ret |-> return_result(inputs, gas, t.result)]
         ELSE [status |-> "ok", js |-> t.js, ret |-> [kind |-> "None"]]
    ELSE [status |-> "ok", js |-> js, ret |-> [kind |-> "None"]]

\* the value step, moving the value also when it is only apparent
value_step_apparent_transfers(js, inputs, cp, gas, db_error) ==
    IF inputs.value.value = 0
    THEN LET l == load_account(js, inputs.target_address, db_error) IN
         IF l.err
         THEN [status |-> "err", js |-> l.js,
               ret |-> [kind |-> "Err", error |-> <<"Database", inputs.target_address>>]]
         ELSE [status |-> "ok", js |-> touch(l.js, inputs.target_address), ret |-> [kind |-> "None"]]
    ELSE LET t == transfer(js, inputs.caller, inputs.target_address, inputs.value.value, db_error) IN
         IF t.err
         THEN [status |-> "err", js |-> t.js,
               ret |-> [kind |-> "Err", error |-> <<"Database", t.address>>]]
         ELSE IF t.result # "None"
         THEN [status |-> "result", js |-> checkpoint_revert(t.js, cp),
               ret |-> return_result(inputs, gas, t.result)]
         ELSE [status |-> "ok", js |-> t.js, ret |-> [kind |-> "None"]]

\* the value step, going on when the database fails
value_step_swallows_db_error(js, inputs, cp, gas, db_error) ==
    IF inputs.value.kind = "Transfer" /\ inputs.value.value = 0
    THEN LET l == load_account(js, inputs.target_address, db_error) IN
         IF l.err
         THEN [status |-> "ok", js |-> l.js, ret |-> [kind |-> "None"]]
         ELSE [status |-> "ok", js |-> touch(l.js, inputs.target_address), ret |-> [kind |-> "None"]]
    ELSE IF inputs.value.kind = "Transfer"
    THEN LET t == transfer(js, inputs.caller, inputs.target_address, inputs.value.value, db_error) IN
         IF t.err
         THEN [status |-> "ok", js |-> t.js, ret |-> [kind |-> "None"]]
         ELSE IF t.result # "None"
         THEN [status |-> "result", js |-> checkpoint_revert(t.js, cp),
               ret |-> return_result(inputs, gas, t.result)]
         ELSE [status |-> "ok", js |-> t.js, ret |-> [kind |-> "None"]]
    ELSE [status |-> "ok", js |-> js, ret |-> [kind |-> "None"]]

\* make_call_frame: the match on inputs.value (touch / transfer)
value_step(js, inputs, cp, gas, db_error) ==
    IF inputs.value.kind = "Transfer" /\ inputs.value.value = 0
    THEN LET l == load_account(js, inputs.target_address, db_error) IN
         IF l.err
         THEN [status |-> "err", js |-> l.js,
               ret |-> [kind |-> "Err", error |-> <<"Database", inputs.target_address>>]]
         ELSE [status |-> "ok", js |-> touch(l.js, inputs.target_address), ret |-> [kind |-> "None"]]
    ELSE IF inputs.value.kind = "Transfer"
    THEN LET t == transfer(js, inputs.caller, inputs.target_address, inputs.value.value, db_error) IN
         IF t.err
         THEN [status |-> "err", js |-> t.js,
               ret |-> [kind |-> "Err", error |-> <<"Database", t.address>>]]
         ELSE IF t.result # "None"
         THEN [status |-> "result", js |-> checkpoint_revert(t.js, cp),
               ret |-> return_result(inputs, gas, t.result)]
         ELSE [status |-> "ok", js |-> t.js, ret |-> [kind |-> "None"]]
    ELSE [status |-> "ok", js |-> js, ret |-> [kind |-> "None"]]

\* the precompile branch, committing whatever the result
precompile_finish_always_commit(js, inputs, cp, result) ==
    [js |-> checkpoint_commit(js),
     ret |-> new_call_result(result, inputs.return_memory_offset)]

\* make_call_frame: the precompile branch, commit on return_ok!() else revert
precompile_finish(js, inputs, cp, result) ==
    [js |-> IF result.result \in return_ok
            THEN checkpoint_commit(js)
            ELSE checkpoint_revert(js, cp),
     ret |-> new_call_result(result, inputs.return_memory_offset)]

\* the interpreter-frame branch, closing the checkpoint it hands out
frame_branch_commits(js, inputs, cp, gas, bytecode, code_hash) ==
    [js |-> checkpoint_commit(js),
     ret |-> new_call_frame(inputs.return_memory_offset, cp,
                Interpreter_new(
                    Contract_new_with_context(inputs.input, bytecode, code_hash, inputs),
                    gas.limit, inputs.is_static))]

\* make_call_frame: the branch for non-empty bytecode
frame_branch(js, inputs, cp, gas, bytecode, code_hash) ==
    [js |-> js,
     ret |-> new_call_frame(inputs.return_memory_offset, cp,
                Interpreter_new(
                    Contract_new_with_context(inputs.input, bytecode, code_hash, inputs),
                    gas.limit, inputs.is_static))]

\* the empty-code branch, reverting where it should commit
empty_code_branch_reverts(js, inputs, cp, gas) ==
    [js |-> checkpoint_revert(js, cp), ret |-> return_result(inputs, gas, "Stop")]

\* the empty-code branch, returning with its checkpoint left open
empty_code_branch_leaves_open(js, inputs, cp, gas) ==
    [js |-> js, ret |-> return_result(inputs, gas, "Stop")]

\* make_call_frame: the branch for empty bytecode
empty_code_branch(js, inputs, cp, gas) ==
    [js |-> checkpoint_commit(js), ret |-> return_result(inputs, gas, "Stop")]

\* the dispatch after the value step, looking at the bytecode first
dispatch_code_first(js, registry, inputs, cp, gas, bytecode, code_hash, outcome) ==
    IF bytecode # EmptyBytes
    THEN frame_branch(js, inputs, cp, gas, bytecode, code_hash)
             @@ [precompile_called |-> FALSE]
    ELSE LET p == call_precompile(registry, inputs.bytecode_address, inputs.input, gas, outcome) IN
         IF p.kind = "Err"
         THEN [js |-> js, ret |-> p, precompile_called |-> TRUE]
         ELSE IF p.kind = "Some"
         THEN precompile_finish(js, inputs, cp, p.result) @@ [precompile_called |-> TRUE]
         ELSE empty_code_branch(js, inputs, cp, gas) @@ [precompile_called |-> FALSE]

\* make_call_frame: precompile first, then bytecode, then empty code
dispatch(js, registry, inputs, cp, gas, bytecode, code_hash, outcome) ==
    LET p == call_precompile(registry, inputs.bytecode_address, inputs.input, gas, outcome) IN
    IF p.kind = "Err"
    THEN [js |-> js, ret |-> p, precompile_called |-> TRUE]
    ELSE IF p.kind = "Some"
    THEN precompile_finish(js, inputs, cp, p.result) @@ [precompile_called |-> TRUE]
    ELSE IF bytecode # EmptyBytes
    THEN frame_branch(js, inputs, cp, gas, bytecode, code_hash)
             @@ [precompile_called |-> FALSE]
    ELSE empty_code_branch(js, inputs, cp, gas) @@ [precompile_called |-> FALSE]

NoCheckpoint == [journal_i |-> 0]

\* EvmContext::make_call_frame.  Besides the new journaled state (js) and the
\* returned value (ret) the record tells what the call went through: whether
\* a checkpoint was taken (with the journaled state right before it and right
\* after the value step) and whether the precompile was invoked.
make_call_frame(js, registry, inputs, outcome, db_error) ==
    LET gas == Gas_new(inputs.gas_limit) IN
    IF depth_exceeded(js)
    THEN [js |-> js, ret |-> return_result(inputs, gas, "CallTooDeep"),
          checkpointed |-> FALSE, at_checkpoint |-> js, checkpoint |-> NoCheckpoint,
          after_value |-> js, precompile_called |-> FALSE]
    ELSE
    LET lc == load_code(js, inputs.bytecode_address, db_error) IN
    IF lc.err
    THEN [js |-> lc.js,
          ret |-> [kind |-> "Err", error |-> <<"Database", inputs.bytecode_address>>],
          checkpointed |-> FALSE, at_checkpoint |-> js, checkpoint |-> NoCheckpoint,
          after_value |-> js, precompile_called |-> FALSE]
    ELSE
    LET c == checkpoint(lc.js)
        v == value_step(c.js, inputs, c.checkpoint, gas, db_error)
    IN  IF v.status # "ok"
        THEN [js |-> v.js, ret |-> v.ret,
              checkpointed |-> TRUE, at_checkpoint |-> lc.js, checkpoint |-> c.checkpoint,
              after_value |-> v.js, precompile_called |-> FALSE]
        ELSE LET d == dispatch(v.js, registry, inputs, c.checkpoint, gas,
                               lc.code, lc.code_hash, outcome)
             IN  [js |-> d.js, ret |-> d.ret,
                  checkpointed |-> TRUE, at_checkpoint |-> lc.js,
                  checkpoint |-> c.checkpoint, after_value |-> v.js,
                  precompile_called |-> d.precompile_called]

\* EvmContext::set_precompiles
set_precompiles(js, registry) ==
    [js |-> [js EXCEPT !.warm_preloaded_addresses = addresses_set(registry)],
     precompiles |-> registry]

(***************************************************************************)
(* Spec registry of L1 (primitives): the SpecId enum with its              *)
(* discriminants, in declaration order.                                    *)
(***************************************************************************)
L1_SpecId ==
    << <<"FRONTIER", 0>>, <<"FRONTIER_THAWING", 1>>, <<"HOMESTEAD", 2>>,
       <<"DAO_FORK", 3>>, <<"TANGERINE", 4>>, <<"SPURIOUS_DRAGON", 5>>,
       <<"BYZANTIUM", 6>>, <<"CONSTANTINOPLE", 7>>, <<"PETERSBURG", 8>>,
       <<"ISTANBUL", 9>>, <<"MUIR_GLACIER", 10>>, <<"BERLIN", 11>>,
       <<"LONDON", 12>>, <<"ARROW_GLACIER", 13>>, <<"GRAY_GLACIER", 14>>,
       <<"MERGE", 15>>, <<"SHANGHAI", 16>>, <<"CANCUN", 17>>,
       <<"PRAGUE", 18>>, <<"LATEST", 255>> >>

\* the variants of a SpecId enum
Variants(enum) == {enum[i][1] : i \in 1..Len(enum)}

\* second component of the first pair of a table whose first component is key
Lookup(table, key) ==
    table[CHOOSE i \in 1..Len(table) :
             /\ table[i][1] = key
             /\ \A j \in 1..(i - 1) : table[j][1] # key][2]

HasKey(table, key) == \E i \in 1..Len(table) : table[i][1] = key

\* `spec_id as u8` on the L1 enum
L1_as_u8(spec_id) == Lookup(L1_SpecId, spec_id)

\* SpecId::enabled with a strict comparison
L1_enabled_strict(our, other) == L1_as_u8(our) > L1_as_u8(other)

\* SpecId::enabled (L1)
L1_enabled(our, other) == L1_as_u8(our) >= L1_as_u8(other)

\* SpecId::is_enabled_in (L1)
L1_is_enabled_in(self, other) == L1_enabled(self, other)

\* the match arms of From<&str> for SpecId (L1); any other name is LATEST
L1_from_str_arms ==
    << <<"Frontier", "FRONTIER">>, <<"Homestead", "HOMESTEAD">>,
       <<"Tangerine", "TANGERINE">>, <<"Spurious", "SPURIOUS_DRAGON">>,
       <<"Byzantium", "BYZANTIUM">>, <<"Constantinople", "CONSTANTINOPLE">>,
       <<"Petersburg", "PETERSBURG">>, <<"Istanbul", "ISTANBUL">>,
       <<"MuirGlacier", "MUIR_GLACIER">>, <<"Berlin", "BERLIN">>,
       <<"London", "LONDON">>, <<"Merge", "MERGE">>, <<"Shanghai", "SHANGHAI">>,
       <<"Cancun", "CANCUN">>, <<"Prague", "PRAGUE">> >>

\* From<&str> for SpecId (L1)
L1_from_str(name) ==
    IF HasKey(L1_from_str_arms, name) THEN Lookup(L1_from_str_arms, name) ELSE "LATEST"

\* the match arms of From<SpecId> for &'static str (L1)
L1_to_str_arms ==
    << <<"FRONTIER", "Frontier">>, <<"FRONTIER_THAWING", "Frontier Thawing">>,
       <<"HOMESTEAD", "Homestead">>, <<"DAO_FORK", "DAO Fork">>,
       <<"TANGERINE", "Tangerine">>, <<"SPURIOUS_DRAGON", "Spurious">>,
       <<"BYZANTIUM", "Byzantium">>, <<"CONSTANTINOPLE", "Constantinople">>,
       <<"PETERSBURG", "Petersburg">>, <<"ISTANBUL", "Istanbul">>,
       <<"MUIR_GLACIER", "MuirGlacier">>, <<"BERLIN", "Berlin">>,
       <<"LONDON", "London">>, <<"ARROW_GLACIER", "Arrow Glacier">>,
       <<"GRAY_GLACIER", "Gray Glacier">>, <<"MERGE", "Merge">>,
       <<"SHANGHAI", "Shanghai">>, <<"CANCUN", "Cancun">>,
       <<"PRAGUE", "Prague">>, <<"LATEST", "Latest">> >>

\* From<SpecId> for &'static str (L1)
L1_to_str(spec_id) == Lookup(L1_to_str_arms, spec_id)

\* impl_chain_spec! (L1): carrier type and its SPEC_ID
L1_carriers ==
    << <<"FrontierSpec", "FRONTIER">>, <<"HomesteadSpec", "HOMESTEAD">>,
       <<"TangerineSpec", "TANGERINE">>, <<"SpuriousDragonSpec", "SPURIOUS_DRAGON">>,
       <<"ByzantiumSpec", "BYZANTIUM">>, <<"PetersburgSpec", "PETERSBURG">>,
       <<"IstanbulSpec", "ISTANBUL">>, <<"BerlinSpec", "BERLIN">>,
       <<"LondonSpec", "LONDON">>, <<"MergeSpec", "MERGE">>,
       <<"ShanghaiSpec", "SHANGHAI">>, <<"CancunSpec", "CANCUN">>,
       <<"PragueSpec", "PRAGUE">>, <<"LatestSpec", "LATEST">> >>

\* Spec::SPEC_ID of an L1 carrier
L1_SPEC_ID(carrier) == Lookup(L1_carriers, carrier)

\* Spec::enabled of an L1 carrier, true only for the forks before its own
L1_Spec_enabled_above(carrier, spec_id) ==
    L1_as_u8(L1_SPEC_ID(carrier)) > L1_as_u8(spec_id)

\* Spec::enabled of an L1 carrier
L1_Spec_enabled(carrier, spec_id) == L1_enabled(L1_SPEC_ID(carrier), spec_id)

\* the match arms of spec_to_generic! (L1): patterns and the carrier bound to SPEC
L1_spec_to_generic_arms ==
    << <<{"FRONTIER", "FRONTIER_THAWING"}, "FrontierSpec">>,
       <<{"HOMESTEAD", "DAO_FORK"}, "HomesteadSpec">>,
       <<{"TANGERINE"}, "TangerineSpec">>,
       <<{"SPURIOUS_DRAGON"}, "SpuriousDragonSpec">>,
       <<{"BYZANTIUM"}, "ByzantiumSpec">>,
       <<{"PETERSBURG", "CONSTANTINOPLE"}, "PetersburgSpec">>,
       <<{"ISTANBUL", "MUIR_GLACIER"}, "IstanbulSpec">>,
       <<{"BERLIN"}, "BerlinSpec">>,
       <<{"LONDON", "ARROW_GLACIER", "GRAY_GLACIER"}, "LondonSpec">>,
       <<{"MERGE"}, "MergeSpec">>,
       <<{"SHANGHAI"}, "ShanghaiSpec">>,
       <<{"CANCUN"}, "CancunSpec">>,
       <<{"LATEST"}, "LatestSpec">>,
       <<{"PRAGUE"}, "PragueSpec">> >>

\* a match over arms: the arms whose pattern holds the scrutinee; the first
\* of them is taken and its body evaluated
MatchingArms(arms, spec_id) == {i \in 1..Len(arms) : spec_id \in arms[i][1]}

FirstArm(arms, spec_id) ==
    CHOOSE i \in MatchingArms(arms, spec_id) : \A j \in MatchingArms(arms, spec_id) : i <= j

\* spec_to_generic! with CONSTANTINOPLE left on the carrier of the fork before it
L1_spec_to_generic_constantinople(spec_id) ==
    IF spec_id = "CONSTANTINOPLE"
    THEN [handled |-> TRUE, SPEC |-> "ByzantiumSpec", evaluations |-> 1]
    ELSE IF MatchingArms(L1_spec_to_generic_arms, spec_id) = {}
    THEN [handled |-> FALSE, SPEC |-> "", evaluations |-> 0]
    ELSE [handled |-> TRUE,
          SPEC |-> L1_spec_to_generic_arms[FirstArm(L1_spec_to_generic_arms, spec_id)][2],
          evaluations |-> 1]

\* spec_to_generic! (L1): the carrier bound to SPEC for a runtime SpecId, and
\* the number of times the expression is evaluated
L1_spec_to_generic(spec_id) ==
    IF MatchingArms(L1_spec_to_generic_arms, spec_id) = {}
    THEN [handled |-> FALSE, SPEC |-> "", evaluations |-> 0]
    ELSE [handled |-> TRUE,
          SPEC |-> L1_spec_to_generic_arms[FirstArm(L1_spec_to_generic_arms, spec_id)][2],
          evaluations |-> 1]

(***************************************************************************)
(* Spec registry of L2 (optimism).                                         *)
(***************************************************************************)
L2_SpecId ==
    << <<"FRONTIER", 0>>, <<"FRONTIER_THAWING", 1>>, <<"HOMESTEAD", 2>>,
       <<"DAO_FORK", 3>>, <<"TANGERINE", 4>>, <<"SPURIOUS_DRAGON", 5>>,
       <<"BYZANTIUM", 6>>, <<"CONSTANTINOPLE", 7>>, <<"PETERSBURG", 8>>,
       <<"ISTANBUL", 9>>, <<"MUIR_GLACIER", 10>>, <<"BERLIN", 11>>,
       <<"LONDON", 12>>, <<"ARROW_GLACIER", 13>>, <<"GRAY_GLACIER", 14>>,
       <<"MERGE", 15>>, <<"BEDROCK", 16>>, <<"REGOLITH", 17>>,
       <<"SHANGHAI", 18>>, <<"CANYON", 19>>, <<"CANCUN", 20>>,
       <<"ECOTONE", 21>>, <<"PRAGUE", 22>>, <<"LATEST", 255>> >>

\* the L2 forks numbered after the L1 forks instead of between them
L2_as_u8_appended(spec_id) ==
    IF spec_id \in {"BEDROCK", "REGOLITH", "CANYON", "ECOTONE"}
    THEN Lookup(L2_SpecId, spec_id) + 7
    ELSE IF spec_id = "LATEST" THEN 255
    ELSE Lookup(L1_SpecId, spec_id)

\* `spec_id as u8` on the L2 enum
L2_as_u8(spec_id) == Lookup(L2_SpecId, spec_id)

\* SpecId::enabled (L2)
L2_enabled(our, other) == L2_as_u8(our) >= L2_as_u8(other)

\* SpecId::is_enabled_in (L2)
L2_is_enabled_in(self, other) == L2_enabled(self, other)

\* the match arms of From<&str> for SpecId (L2); any other name is LATEST
L2_from_str_arms ==
    << <<"Frontier", "FRONTIER">>, <<"Homestead", "HOMESTEAD">>,
       <<"Tangerine", "TANGERINE">>, <<"Spurious", "SPURIOUS_DRAGON">>,
       <<"Byzantium", "BYZANTIUM">>, <<"Constantinople", "CONSTANTINOPLE">>,
       <<"Petersburg", "PETERSBURG">>, <<"Istanbul", "ISTANBUL">>,
       <<"MuirGlacier", "MUIR_GLACIER">>, <<"Berlin", "BERLIN">>,
       <<"London", "LONDON">>, <<"Merge", "MERGE">>, <<"Shanghai", "SHANGHAI">>,
       <<"Cancun", "CANCUN">>, <<"Prague", "PRAGUE">>, <<"Bedrock", "BEDROCK">>,
       <<"Regolith", "REGOLITH">>, <<"Canyon", "CANYON">>, <<"Ecotone", "ECOTONE">> >>

\* From<&str> for SpecId (L2)
L2_from_str(name) ==
    IF HasKey(L2_from_str_arms, name) THEN Lookup(L2_from_str_arms, name) ELSE "LATEST"

\* the match arms of From<SpecId> for &'static str (L2)
L2_to_str_arms ==
    << <<"FRONTIER", "Frontier">>, <<"FRONTIER_THAWING", "Frontier Thawing">>,
       <<"HOMESTEAD", "Homestead">>, <<"DAO_FORK", "DAO Fork">>,
       <<"TANGERINE", "Tangerine">>, <<"SPURIOUS_DRAGON", "Spurious">>,
       <<"BYZANTIUM", "Byzantium">>, <<"CONSTANTINOPLE", "Constantinople">>,
       <<"PETERSBURG", "Petersburg">>, <<"ISTANBUL", "Istanbul">>,
       <<"MUIR_GLACIER", "MuirGlacier">>, <<"BERLIN", "Berlin">>,
       <<"LONDON", "London">>, <<"ARROW_GLACIER", "Arrow Glacier">>,
       <<"GRAY_GLACIER", "Gray Glacier">>, <<"MERGE", "Merge">>,
       <<"SHANGHAI", "Shanghai">>, <<"CANCUN", "Cancun">>,
       <<"PRAGUE", "Prague">>, <<"BEDROCK", "Bedrock">>,
       <<"REGOLITH", "Regolith">>, <<"CANYON", "Canyon">>,
       <<"ECOTONE", "Ecotone">>, <<"LATEST", "Latest">> >>

\* From<SpecId> for &'static str (L2)
L2_to_str(spec_id) == Lookup(L2_to_str_arms, spec_id)

\* impl_chain_spec! (L2): carrier type and its SPEC_ID
L2_carriers ==
    << <<"FrontierSpec", "FRONTIER">>, <<"HomesteadSpec", "HOMESTEAD">>,
       <<"TangerineSpec", "TANGERINE">>, <<"SpuriousDragonSpec", "SPURIOUS_DRAGON">>,
       <<"ByzantiumSpec", "BYZANTIUM">>, <<"PetersburgSpec", "PETERSBURG">>,
       <<"IstanbulSpec", "ISTANBUL">>, <<"BerlinSpec", "BERLIN">>,
       <<"LondonSpec", "LONDON">>, <<"MergeSpec", "MERGE">>,
       <<"ShanghaiSpec", "SHANGHAI">>, <<"CancunSpec", "CANCUN">>,
       <<"PragueSpec", "PRAGUE">>, <<"BedrockSpec", "BEDROCK">>,
       <<"RegolithSpec", "REGOLITH">>, <<"CanyonSpec", "CANYON">>,
       <<"EcotoneSpec", "ECOTONE">>, <<"LatestSpec", "LATEST">> >>

\* Spec::SPEC_ID of an L2 carrier
L2_SPEC_ID(carrier) == Lookup(L2_carriers, carrier)

\* Spec::enabled of an L2 carrier
L2_Spec_enabled(carrier, spec_id) == L2_enabled(L2_SPEC_ID(carrier), spec_id)

\* the match arms of spec_to_generic! (L2)
L2_spec_to_generic_arms ==
    << <<{"FRONTIER", "FRONTIER_THAWING"}, "FrontierSpec">>,
       <<{"HOMESTEAD", "DAO_FORK"}, "HomesteadSpec">>,
       <<{"TANGERINE"}, "TangerineSpec">>,
       <<{"SPURIOUS_DRAGON"}, "SpuriousDragonSpec">>,
       <<{"BYZANTIUM"}, "ByzantiumSpec">>,
       <<{"PETERSBURG", "CONSTANTINOPLE"}, "PetersburgSpec">>,
       <<{"ISTANBUL", "MUIR_GLACIER"}, "IstanbulSpec">>,
       <<{"BERLIN"}, "BerlinSpec">>,
       <<{"LONDON", "ARROW_GLACIER", "GRAY_GLACIER"}, "LondonSpec">>,
       <<{"MERGE"}, "MergeSpec">>,
       <<{"SHANGHAI"}, "ShanghaiSpec">>,
       <<{"CANCUN"}, "CancunSpec">>,
       <<{"LATEST"}, "LatestSpec">>,
       <<{"PRAGUE"}, "PragueSpec">>,
       <<{"BEDROCK"}, "BedrockSpec">>,
       <<{"REGOLITH"}, "RegolithSpec">>,
       <<{"CANYON"}, "CanyonSpec">>,
       <<{"ECOTONE"}, "EcotoneSpec">> >>

\* spec_to_generic! (L2)
L2_spec_to_generic(spec_id) ==
    IF MatchingArms(L2_spec_to_generic_arms, spec_id) = {}
    THEN [handled |-> FALSE, SPEC |-> "", evaluations |-> 0]
    ELSE [handled |-> TRUE,
          SPEC |-> L2_spec_to_generic_arms[FirstArm(L2_spec_to_generic_arms, spec_id)][2],
          evaluations |-> 1]

\* impl From<SpecId> for revm_primitives::SpecId: the match arms
L2_into_L1_arms ==
    << <<{"FRONTIER"}, "FRONTIER">>,
       <<{"FRONTIER_THAWING"}, "FRONTIER_THAWING">>,
       <<{"HOMESTEAD"}, "HOMESTEAD">>,
       <<{"DAO_FORK"}, "DAO_FORK">>,
       <<{"TANGERINE"}, "TANGERINE">>,
       <<{"SPURIOUS_DRAGON"}, "SPURIOUS_DRAGON">>,
       <<{"BYZANTIUM"}, "BYZANTIUM">>,
       <<{"CONSTANTINOPLE"}, "CONSTANTINOPLE">>,
       <<{"PETERSBURG"}, "PETERSBURG">>,
       <<{"ISTANBUL"}, "ISTANBUL">>,
       <<{"MUIR_GLACIER"}, "MUIR_GLACIER">>,
       <<{"BERLIN"}, "BERLIN">>,
       <<{"LONDON"}, "LONDON">>,
       <<{"ARROW_GLACIER"}, "ARROW_GLACIER">>,
       <<{"GRAY_GLACIER"}, "GRAY_GLACIER">>,
       <<{"MERGE", "BEDROCK", "REGOLITH"}, "MERGE">>,
       <<{"SHANGHAI", "CANYON"}, "SHANGHAI">>,
       <<{"CANCUN", "ECOTONE"}, "CANCUN">>,
       <<{"PRAGUE"}, "PRAGUE">>,
       <<{"LATEST"}, "LATEST">> >>

\* the conversion done as a cast of the discriminant: the L1 SpecId numbered
\* as the L2 one
L2_into_L1_by_discriminant(spec_id) ==
    LET same == {i \in 1..Len(L1_SpecId) : L1_SpecId[i][2] = L2_as_u8(spec_id)} IN
    IF same = {}
    THEN [handled |-> FALSE, value |-> ""]
    ELSE [handled |-> TRUE, value |-> L1_SpecId[CHOOSE i \in same : TRUE][1]]

\* the conversion taking each L2 fork to the L1 fork after it
L2_into_L1_forward(spec_id) ==
    IF MatchingArms(L2_into_L1_arms, spec_id) = {}
    THEN [handled |-> FALSE, value |-> ""]
    ELSE [handled |-> TRUE,
          value |-> IF spec_id \in {"BEDROCK", "REGOLITH"} THEN "SHANGHAI"
                    ELSE IF spec_id = "CANYON" THEN "CANCUN"
                    ELSE IF spec_id = "ECOTONE" THEN "PRAGUE"
                    ELSE L2_into_L1_arms[FirstArm(L2_into_L1_arms, spec_id)][2]]

\* impl From<SpecId> for revm_primitives::SpecId
L2_into_L1(spec_id) ==
    IF MatchingArms(L2_into_L1_arms, spec_id) = {}
    THEN [handled |-> FALSE, value |-> ""]
    ELSE [handled |-> TRUE,
          value |-> L2_into_L1_arms[FirstArm(L2_into_L1_arms, spec_id)][2]]

\* the two registries behind one name each
Registry == {"L1", "L2"}

SpecIds(r) == IF r = "L1" THEN Variants(L1_SpecId) ELSE Variants(L2_SpecId)

as_u8(r, s) == IF r = "L1" THEN L1_as_u8(s) ELSE L2_as_u8(s)

enabled(r, our, other) == IF r = "L1" THEN L1_enabled(our, other) ELSE L2_enabled(our, other)

is_enabled_in(r, self, other) ==
    IF r = "L1" THEN L1_is_enabled_in(self, other) ELSE L2_is_enabled_in(self, other)

to_str(r, s) == IF r = "L1" THEN L1_to_str(s) ELSE L2_to_str(s)

from_str(r, n) == IF r = "L1" THEN L1_from_str(n) ELSE L2_from_str(n)

spec_to_generic(r, s) == IF r = "L1" THEN L1_spec_to_generic(s) ELSE L2_spec_to_generic(s)

SPEC_ID(r, c) == IF r = "L1" THEN L1_SPEC_ID(c) ELSE L2_SPEC_ID(c)

Spec_enabled(r, c, s) == IF r = "L1" THEN L1_Spec_enabled(c, s) ELSE L2_Spec_enabled(c, s)

Carriers(r) == IF r = "L1" THEN Variants(L1_carriers) ELSE Variants(L2_carriers)

(***************************************************************************)
(* DummyHost: storage backed by an in-memory map from index to value.      *)
(***************************************************************************)
U256_ZERO == 0

\* the storage indices and the values of the calls made to the host
StorageIndex == {0, 1}

StorageValue == {0, 1, 2}

\* DummyHost::new: storage is HashMap::new()
DummyHost_new == <<>>

\* Entry::Occupied(entry) of self.storage.entry(index)
Occupied(st, index) == index \in DOMAIN st

\* entry.insert(value)
Entry_insert(st, index, value) ==
    [i \in (DOMAIN st) \cup {index} |-> IF i = index THEN value ELSE st[i]]

\* sload that leaves a vacant entry vacant
sload_without_insert(st, index) ==
    IF Occupied(st, index)
    THEN [storage |-> st, value |-> st[index], is_cold |-> FALSE]
    ELSE [storage |-> st, value |-> U256_ZERO, is_cold |-> TRUE]

\* DummyHost::sload
sload(st, index) ==
    IF Occupied(st, index)
    THEN [storage |-> st, value |-> st[index], is_cold |-> FALSE]
    ELSE [storage |-> Entry_insert(st, index, U256_ZERO),
          value |-> U256_ZERO, is_cold |-> TRUE]

\* sstore reporting the value just written as the present one
sstore_present_is_new(st, index, value) ==
    LET present == IF Occupied(st, index) THEN value ELSE U256_ZERO
        is_cold == ~Occupied(st, index)
    IN  [storage |-> Entry_insert(st, index, value),
         result |-> [original_value |-> U256_ZERO, present_value |-> present,
                     new_value |-> value, is_cold |-> is_cold]]

\* DummyHost::sstore
sstore(st, index, value) ==
    LET present == IF Occupied(st, index) THEN st[index] ELSE U256_ZERO
        is_cold == ~Occupied(st, index)
    IN  [storage |-> Entry_insert(st, index, value),
         result |-> [original_value |-> U256_ZERO, present_value |-> present,
                     new_value |-> value, is_cold |-> is_cold]]

\* DummyHost::clear (of the storage)
clear(st) == <<>>

\* no index accessed, nothing stored, storage never cleared
NoHistory ==
    [accessed |-> {}, stored |-> [i \in StorageIndex |-> U256_ZERO], cleared |-> FALSE]

(***************************************************************************)
(* The state machine of the call-frame construction.                       *)
(***************************************************************************)
VARIABLES
    journaled_state,   \* EvmContext.inner.journaled_state
    precompiles,       \* EvmContext.precompiles (the registered addresses)
    frames,            \* the Frames returned and not yet completed, innermost last
    last,              \* the last operation: its inputs, what it returned, the state before it
    calls,             \* number of make_call_frame calls so far
    reg_last,          \* the last query put to a spec registry, with its answer
    storage,           \* DummyHost.storage
    host_last,         \* the last call made to the dummy host, with what it returned
    host_history       \* the storage indices accessed and the values stored so far

vars == <<journaled_state, precompiles, frames, last, calls, reg_last,
          storage, host_last, host_history>>

\* depths the context is entered at: a fresh transaction, and a call tree
\* at and just above the call stack limit
StartDepths == {0, CALL_STACK_LIMIT, CALL_STACK_LIMIT + 1}

\* addresses warmed before execution besides the precompiles
WarmPreloads == {{}, {MOCK_CALLER}}

Registries == {{}, {ABSENT}, {CONTRACT, ABSENT}}

CallValues ==
    {[kind |-> "Transfer", value |-> 0], [kind |-> "Transfer", value |-> 1],
     [kind |-> "Transfer", value |-> 2], [kind |-> "Apparent", value |-> 1]}

\* calldata, gas limit, static flag and return range of a call
CallShapes ==
    {[input |-> EmptyBytes, gas_limit |-> 0, is_static |-> FALSE,
      return_memory_offset |-> <<0, 0>>],
     [input |-> <<1>>, gas_limit |-> 3, is_static |-> TRUE,
      return_memory_offset |-> <<2, 5>>]}

\* CALL / STATICCALL target the called address, CALLCODE / DELEGATECALL the
\* calling contract itself
CallInputs ==
    {[input |-> sh.input, gas_limit |-> sh.gas_limit, bytecode_address |-> b,
      target_address |-> t, caller |-> c, value |-> v, is_static |-> sh.is_static,
      return_memory_offset |-> sh.return_memory_offset] :
        sh \in CallShapes, b \in Address, c \in {MOCK_CALLER, CONTRACT},
        t \in Address, v \in CallValues}

SchemeInputs == {i \in CallInputs : i.target_address \in {i.bytecode_address, i.caller}}

\* the database of the context never fails (EmptyDB, CacheDB<EmptyDB>)
Infallible == {{}}

\* a database that fails on at most one address during a call
DbErrors == {{}} \cup {{a} : a \in Address}

Init ==
    /\ \E d \in StartDepths, wp \in WarmPreloads :
          journaled_state = [JournaledState_new(wp) EXCEPT !.depth = d]
    /\ precompiles = {}
    /\ frames = <<>>
    /\ last = [op |-> "new"]
    /\ calls = 0
    /\ reg_last = [op |-> "new"]
    /\ storage = DummyHost_new
    /\ host_last = [op |-> "new"]
    /\ host_history = NoHistory

Running == last.op = "make_call_frame" => last.ret.kind # "Err"

MakeCallFrameOf(call_inputs, db_errors) ==
    /\ calls < MaxCalls
    /\ Running
    /\ \E inputs \in call_inputs, db_error \in db_errors :
       \E outcome \in IF inputs.bytecode_address \in precompiles
                      THEN PrecompileOutcomes ELSE {NoOutcome} :
          LET r == make_call_frame(journaled_state, precompiles, inputs, outcome, db_error) IN
          /\ journaled_state' = r.js
          /\ frames' = IF r.ret.kind = "Frame" THEN Append(frames, r.ret) ELSE frames
          /\ last' = [op |-> "make_call_frame", inputs |-> inputs, outcome |-> outcome,
                      db_error |-> db_error, registry |-> precompiles,
                      js_before |-> journaled_state, ret |-> r.ret,
                      checkpointed |-> r.checkpointed, at_checkpoint |-> r.at_checkpoint,
                      checkpoint |-> r.checkpoint, after_value |-> r.after_value,
                      precompile_called |-> r.precompile_called]
    /\ calls' = calls + 1
    /\ UNCHANGED <<precompiles, reg_last, storage, host_last, host_history>>

MakeCallFrameOn(db_errors) == MakeCallFrameOf(SchemeInputs, db_errors)

MakeCallFrame == MakeCallFrameOn(Infallible)

\* completion of the innermost frame: its checkpoint is committed when the
\* interpreter ended well, reverted otherwise
FrameReturn ==
    /\ Running
    /\ frames # <<>>
    /\ \E ok \in BOOLEAN :
          /\ journaled_state' = IF ok THEN checkpoint_commit(journaled_state)
                                ELSE checkpoint_revert(journaled_state,
                                                       frames[Len(frames)].checkpoint)
          /\ last' = [op |-> "frame_return", ok |-> ok, js_before |-> journaled_state]
    /\ frames' = SubSeq(frames, 1, Len(frames) - 1)
    /\ UNCHANGED <<precompiles, calls, reg_last, storage, host_last, host_history>>

\* the driver sets the precompiles before the first frame of a transaction
SetPrecompiles ==
    /\ calls = 0
    /\ \E registry \in Registries :
          LET r == set_precompiles(journaled_state, registry) IN
          /\ journaled_state' = r.js
          /\ precompiles' = r.precompiles
          /\ last' = [op |-> "set_precompiles", registry |-> registry,
                      js_before |-> journaled_state]
    /\ UNCHANGED <<frames, calls, reg_last, storage, host_last, host_history>>

Next == MakeCallFrame \/ FrameReturn \/ SetPrecompiles

Spec == Init /\ [][Next]_vars

(***************************************************************************)
(* The same context over a database that may fail: a fresh context, calls  *)
(* of one shape, the database failing on at most one address per call.     *)
(***************************************************************************)
InitDb ==
    /\ journaled_state = JournaledState_new({})
    /\ precompiles = {}
    /\ frames = <<>>
    /\ last = [op |-> "new"]
    /\ calls = 0
    /\ reg_last = [op |-> "new"]
    /\ storage = DummyHost_new
    /\ host_last = [op |-> "new"]
    /\ host_history = NoHistory

\* create_mock_call_inputs: no calldata, gas limit 0, not static
MockShapeInputs ==
    {i \in SchemeInputs : i.input = EmptyBytes /\ i.gas_limit = 0 /\ ~i.is_static}

MakeCallFrameFallible == MakeCallFrameOf(MockShapeInputs, DbErrors)

NextDb == MakeCallFrameFallible \/ FrameReturn \/ SetPrecompiles

SpecDb == InitDb /\ [][NextDb]_vars

(***************************************************************************)
(* The call tree: from a fresh context, calls nested in the frames that    *)
(* earlier calls returned, and completions of the innermost frame.  The    *)
(* depth check of make_call_frame is what bounds it.                       *)
(***************************************************************************)
\* create_mock_call_inputs(to)
create_mock_call_inputs(to) ==
    [input |-> EmptyBytes, gas_limit |-> 0, bytecode_address |-> to,
     target_address |-> to, caller |-> MOCK_CALLER,
     value |-> [kind |-> "Transfer", value |-> 0], is_static |-> FALSE,
     return_memory_offset |-> <<0, 0>>]

\* a call to the contract with code, as test_make_call_frame_succeeds makes it
NestedCall ==
    /\ Running
    /\ \E to \in {CONTRACT} :
          LET inputs == create_mock_call_inputs(to)
              r == make_call_frame(journaled_state, precompiles, inputs, NoOutcome, {})
          IN  /\ journaled_state' = r.js
              /\ frames' = IF r.ret.kind = "Frame" THEN Append(frames, r.ret) ELSE frames
              /\ last' = [op |-> "nested_call", to |-> to,
                          depth_before |-> depth_of(journaled_state),
                          kind |-> r.ret.kind,
                          result |-> IF r.ret.kind = "Result"
                                     THEN r.ret.result.result ELSE "None"]
    /\ UNCHANGED <<precompiles, calls, reg_last, storage, host_last, host_history>>

\* completion of the innermost frame
NestedReturn ==
    /\ frames # <<>>
    /\ \E ok \in BOOLEAN :
          /\ journaled_state' = IF ok THEN checkpoint_commit(journaled_state)
                                ELSE checkpoint_revert(journaled_state,
                                                       frames[Len(frames)].checkpoint)
          /\ last' = [op |-> "nested_return", ok |-> ok,
                      depth_before |-> depth_of(journaled_state)]
    /\ frames' = SubSeq(frames, 1, Len(frames) - 1)
    /\ UNCHANGED <<precompiles, calls, reg_last, storage, host_last, host_history>>

NextDepth == NestedCall \/ NestedReturn

SpecDepth == InitDb /\ [][NextDepth]_vars

(***************************************************************************)
(* The spec registries: one query of either registry, over every SpecId.   *)
(***************************************************************************)
RegInit ==
    /\ journaled_state = JournaledState_new({})
    /\ precompiles = {}
    /\ frames = <<>>
    /\ last = [op |-> "new"]
    /\ calls = 0
    /\ reg_last = [op |-> "new"]
    /\ storage = DummyHost_new
    /\ host_last = [op |-> "new"]
    /\ host_history = NoHistory

\* SpecId::enabled(our, other) and our.is_enabled_in(other)
CheckEnabled ==
    /\ reg_last.op = "new"
    /\ \E r \in Registry : \E our \in SpecIds(r), other \in SpecIds(r) :
          reg_last' = [op |-> "enabled", registry |-> r, our |-> our, other |-> other,
                       result |-> enabled(r, our, other),
                       method |-> is_enabled_in(r, our, other)]
    /\ UNCHANGED <<journaled_state, precompiles, frames, last, calls, storage, host_last, host_history>>

\* <Carrier as Spec>::enabled(spec_id)
CarrierEnabled ==
    /\ reg_last.op = "new"
    /\ \E r \in Registry : \E c \in Carriers(r), x \in SpecIds(r) :
          reg_last' = [op |-> "carrier_enabled", registry |-> r, carrier |-> c,
                       spec_id |-> x, result |-> Spec_enabled(r, c, x)]
    /\ UNCHANGED <<journaled_state, precompiles, frames, last, calls, storage, host_last, host_history>>

\* the display name of a SpecId, parsed back
DisplayAndParse ==
    /\ reg_last.op = "new"
    /\ \E r \in Registry : \E s \in SpecIds(r) :
          reg_last' = [op |-> "display", registry |-> r, spec_id |-> s,
                       name |-> to_str(r, s), parsed |-> from_str(r, to_str(r, s))]
    /\ UNCHANGED <<journaled_state, precompiles, frames, last, calls, storage, host_last, host_history>>

\* spec_to_generic!(spec_id, e)
SpecToGeneric ==
    /\ reg_last.op = "new"
    /\ \E r \in Registry : \E s \in SpecIds(r) :
          LET g == spec_to_generic(r, s) IN
          reg_last' = [op |-> "spec_to_generic", registry |-> r, spec_id |-> s,
                       handled |-> g.handled, SPEC |-> g.SPEC,
                       SPEC_ID |-> IF g.handled THEN SPEC_ID(r, g.SPEC) ELSE "",
                       evaluations |-> g.evaluations]
    /\ UNCHANGED <<journaled_state, precompiles, frames, last, calls, storage, host_last, host_history>>

\* revm_primitives::SpecId::from(spec_id) of an L2 SpecId
IntoL1 ==
    /\ reg_last.op = "new"
    /\ \E s \in Variants(L2_SpecId) :
          LET c == L2_into_L1(s) IN
          reg_last' = [op |-> "into_l1", registry |-> "L2", spec_id |-> s,
                       handled |-> c.handled, value |-> c.value]
    /\ UNCHANGED <<journaled_state, precompiles, frames, last, calls, storage, host_last, host_history>>

\* spec_to_generic!(spec_id, SPEC::enabled(other)) next to
\* SpecId::enabled(spec_id, other), for the SpecIds other that a carrier stands for
SpecializedEnabled ==
    /\ reg_last.op = "new"
    /\ \E r \in Registry : \E s \in SpecIds(r), c \in Carriers(r) :
          LET g == spec_to_generic(r, s)
              x == SPEC_ID(r, c)
          IN  /\ g.handled
              /\ reg_last' = [op |-> "specialized_enabled", registry |-> r,
                              spec_id |-> s, other |-> x, SPEC |-> g.SPEC,
                              carrier_answer |-> Spec_enabled(r, g.SPEC, x),
                              runtime_answer |-> enabled(r, s, x)]
    /\ UNCHANGED <<journaled_state, precompiles, frames, last, calls, storage, host_last, host_history>>

\* SpecId::enabled(our, other) in L2 next to the L1 SpecId::enabled of the
\* converted ids, and of the converted our with the L1 id named as other
IntoL1Enabled ==
    /\ reg_last.op = "new"
    /\ \E our \in Variants(L2_SpecId), other \in Variants(L2_SpecId) :
          LET from_our == L2_into_L1(our)
              from_other == L2_into_L1(other)
              is_l1 == other \in Variants(L1_SpecId)
          IN  /\ from_our.handled /\ from_other.handled
              /\ reg_last' = [op |-> "into_l1_enabled", registry |-> "L2",
                              our |-> our, other |-> other,
                              from_our |-> from_our.value, from_other |-> from_other.value,
                              l2_answer |-> L2_enabled(our, other),
                              l1_answer |-> L1_enabled(from_our.value, from_other.value),
                              other_is_l1 |-> is_l1,
                              l1_answer_by_name |->
                                  IF is_l1 THEN L1_enabled(from_our.value, other) ELSE FALSE]
    /\ UNCHANGED <<journaled_state, precompiles, frames, last, calls, storage, host_last, host_history>>

RegNext ==
    \/ CheckEnabled \/ CarrierEnabled \/ DisplayAndParse \/ SpecToGeneric \/ IntoL1
    \/ SpecializedEnabled \/ IntoL1Enabled

SpecRegistry == RegInit /\ [][RegNext]_vars

(***************************************************************************)
(* The dummy host: any sequence of sload, sstore and clear.                *)
(***************************************************************************)
HostInit ==
    /\ journaled_state = JournaledState_new({})
    /\ precompiles = {}
    /\ frames = <<>>
    /\ last = [op |-> "new"]
    /\ calls = 0
    /\ reg_last = [op |-> "new"]
    /\ storage = DummyHost_new
    /\ host_last = [op |-> "new"]
    /\ host_history = NoHistory

SLoad ==
    /\ \E index \in StorageIndex :
          LET r == sload(storage, index) IN
          /\ storage' = r.storage
          /\ host_last' = [op |-> "sload", index |-> index, value |-> r.value,
                           is_cold |-> r.is_cold, seen |-> host_history]
          /\ host_history' = [host_history EXCEPT !.accessed = @ \cup {index}]
    /\ UNCHANGED <<journaled_state, precompiles, frames, last, calls, reg_last>>

SStore ==
    /\ \E index \in StorageIndex, value \in StorageValue :
          LET r == sstore(storage, index, value) IN
          /\ storage' = r.storage
          /\ host_last' = [op |-> "sstore", index |-> index, value |-> value,
                           result |-> r.result, is_cold |-> r.result.is_cold,
                           seen |-> host_history]
          /\ host_history' = [host_history EXCEPT !.accessed = @ \cup {index},
                                                  !.stored[index] = value]
    /\ UNCHANGED <<journaled_state, precompiles, frames, last, calls, reg_last>>

Clear ==
    /\ storage' = clear(storage)
    /\ host_last' = [op |-> "clear", seen |-> host_history]
    /\ host_history' = [host_history EXCEPT !.cleared = TRUE]
    /\ UNCHANGED <<journaled_state, precompiles, frames, last, calls, reg_last>>

HostNext == SLoad \/ SStore \/ Clear

SpecHost == HostInit /\ [][HostNext]_vars

(***************************************************************************)
(* What the properties observe.                                            *)
(***************************************************************************)
IsCall == last.op = "make_call_frame"

\* balance of an account as the journaled state sees it
Balance(js, a) == IF js.state[a].present THEN js.state[a].balance ELSE DbBalance(a)

\* warm mark of an account as the next access would report it
IsWarm(js, a) ==
    IF js.state[a].present THEN js.state[a].warm ELSE a \in js.warm_preloaded_addresses

\* the journaled state without its account cache: depth, journal, and per
\* account the warm mark, the touch mark and the balance
Overlay(js) ==
    [depth |-> js.depth, journal |-> js.journal,
     warm_preloaded_addresses |-> js.warm_preloaded_addresses,
     accounts |-> [a \in Address |->
                     [warm |-> IsWarm(js, a), touched |-> js.state[a].touched,
                      balance |-> Balance(js, a)]]]

\* the value step of the last call cannot fail for lack of funds
ValueStepSucceeds ==
    \/ last.inputs.value.kind = "Apparent"
    \/ last.inputs.value.value = 0
    \/ Balance(last.js_before, last.inputs.caller) >= last.inputs.value.value

DepthOk == last.js_before.depth <= CALL_STACK_LIMIT

GasUnchanged ==
    /\ last.ret.result.gas.limit = last.inputs.gas_limit
    /\ last.ret.result.gas.remaining = last.inputs.gas_limit

(***************************************************************************)
(* C1: make_call_frame called at a depth above CALL_STACK_LIMIT returns    *)
(* the Result CallTooDeep with all the gas and no output, and leaves the   *)
(* journaled state as it was: nothing loaded, no checkpoint, same depth,   *)
(* same journal, no account warmed, touched or debited.                    *)
(***************************************************************************)
C1_CallTooDeep ==
    (IsCall /\ last.js_before.depth > CALL_STACK_LIMIT) =>
        /\ last.ret.kind = "Result"
        /\ last.ret.result.result = "CallTooDeep"
        /\ GasUnchanged
        /\ last.ret.result.output = EmptyBytes
        /\ ~last.checkpointed
        /\ journaled_state = last.js_before

C1_Witness ==
    /\ IsCall
    /\ last.js_before.depth = CALL_STACK_LIMIT + 1
    /\ last.ret.kind = "Result"
    /\ last.ret.result.result = "CallTooDeep"

(***************************************************************************)
(* C2: a call transferring v > 0 from a caller whose balance is below v,   *)
(* at a depth within the limit, returns the Result OutOfFunds with all the *)
(* gas and no output; the checkpoint is reverted (depth as before the      *)
(* call), no balance changed, and the journal holds nothing new but the    *)
(* AccountWarmed of the code load that preceded the checkpoint.            *)
(***************************************************************************)
C2_Case ==
    /\ IsCall
    /\ DepthOk
    /\ last.inputs.value.kind = "Transfer"
    /\ last.inputs.value.value > 0
    /\ Balance(last.js_before, last.inputs.caller) < last.inputs.value.value

C2_OutOfFunds ==
    C2_Case =>
        /\ last.ret.kind = "Result"
        /\ last.ret.result.result = "OutOfFunds"
        /\ GasUnchanged
        /\ last.ret.result.output = EmptyBytes
        /\ last.checkpointed
        /\ journaled_state.depth = last.js_before.depth
        /\ \A a \in Address : Balance(journaled_state, a) = Balance(last.js_before, a)
        /\ \A a \in Address :
              journaled_state.state[a].touched = last.js_before.state[a].touched
        /\ \/ journaled_state.journal = last.js_before.journal
           \/ /\ ~IsWarm(last.js_before, last.inputs.bytecode_address)
              /\ journaled_state.journal =
                     PushEntry(last.js_before.journal,
                               <<"AccountWarmed", last.inputs.bytecode_address>>)

\* the case of test_make_call_frame_transfer_revert: the caller and the
\* target are first loaded inside the reverted window
C2_Witness ==
    /\ C2_Case
    /\ last.ret.result.result = "OutOfFunds"
    /\ last.inputs.caller # last.inputs.bytecode_address
    /\ ~last.js_before.state[last.inputs.caller].present
    /\ journaled_state.journal =
           << <<(<<"AccountWarmed", last.inputs.bytecode_address>>)>> >>

(***************************************************************************)
(* C3: a call whose bytecode_address is in the precompile registry never   *)
(* returns a Frame, also when that account has deployed code; once the     *)
(* depth check and the value step are passed the precompile is invoked and *)
(* the call returns the precompile's Result or its fatal error.            *)
(***************************************************************************)
C3_Case == IsCall /\ last.inputs.bytecode_address \in last.registry

C3_PrecompileWins ==
    C3_Case =>
        /\ last.ret.kind # "Frame"
        /\ last.precompile_called <=> (DepthOk /\ ValueStepSucceeds)
        /\ last.precompile_called =>
              \/ /\ last.ret.kind = "Err"
                 /\ last.outcome.kind = "Fatal"
                 /\ last.ret.error = <<"Precompile", last.outcome.msg>>
              \/ /\ last.ret.kind = "Result"
                 /\ last.outcome.kind \in {"Ok", "Error"}
                 /\ last.ret.result.result \in {"Return", "PrecompileOOG", "PrecompileError"}
                 /\ last.ret.result.result = "Return" =>
                        /\ last.outcome.kind = "Ok"
                        /\ last.ret.result.output = last.outcome.bytes

C3_Witness ==
    /\ C3_Case
    /\ DbCode(last.inputs.bytecode_address) # EmptyBytes
    /\ last.precompile_called
    /\ last.ret.kind = "Result"
    /\ last.ret.result.result = "Return"

(***************************************************************************)
(* C4: on the precompile path the checkpoint is committed exactly when the *)
(* result is Return (the precompile succeeded within the gas limit); for   *)
(* PrecompileOOG (cost above the limit, or an out-of-gas error) and        *)
(* PrecompileError (another recoverable error) it is reverted, and the     *)
(* transfer, touch and warm marks made since the checkpoint are undone:    *)
(* the journaled state is the one right before the checkpoint.             *)
(***************************************************************************)
C4_Case == IsCall /\ last.precompile_called /\ last.ret.kind = "Result"

C4_ExpectedResult ==
    IF last.outcome.kind = "Ok"
    THEN IF last.outcome.gas_used <= last.inputs.gas_limit THEN "Return" ELSE "PrecompileOOG"
    ELSE IF last.outcome.msg = "OutOfGas" THEN "PrecompileOOG" ELSE "PrecompileError"

C4_CommitIffReturn ==
    C4_Case =>
        /\ last.ret.result.result = C4_ExpectedResult
        /\ journaled_state.depth = last.js_before.depth
        /\ IF last.ret.result.result = "Return"
           THEN /\ journaled_state = checkpoint_commit(last.after_value)
                /\ \A a \in Address :
                      /\ Balance(journaled_state, a) = Balance(last.after_value, a)
                      /\ journaled_state.state[a].touched = last.after_value.state[a].touched
                      /\ IsWarm(journaled_state, a) = IsWarm(last.after_value, a)
           ELSE Overlay(journaled_state) = Overlay(last.at_checkpoint)

\* a precompile failure after a transfer that moved balance
C4_Witness ==
    /\ C4_Case
    /\ last.ret.result.result \in {"PrecompileOOG", "PrecompileError"}
    /\ last.inputs.value.kind = "Transfer"
    /\ last.inputs.value.value > 0
    /\ last.inputs.caller # last.inputs.target_address
    /\ Balance(last.after_value, last.inputs.target_address)
           = Balance(last.at_checkpoint, last.inputs.target_address) + last.inputs.value.value
    /\ Balance(journaled_state, last.inputs.target_address)
           = Balance(last.js_before, last.inputs.target_address)

(***************************************************************************)
(* C5: within the depth limit, with the value step succeeding, no          *)
(* precompile at bytecode_address and non-empty code there, the call       *)
(* returns a Frame: its return_memory_range is inputs.return_memory_offset,*)
(* its checkpoint is the one taken in this call and is still open, and its *)
(* interpreter holds the loaded bytecode and code hash, the gas limit of   *)
(* the inputs and their is_static flag.                                    *)
(***************************************************************************)
C5_Case ==
    /\ IsCall
    /\ DepthOk
    /\ ValueStepSucceeds
    /\ last.inputs.bytecode_address \notin last.registry
    /\ DbCode(last.inputs.bytecode_address) # EmptyBytes

C5_Frame ==
    C5_Case =>
        /\ last.ret.kind = "Frame"
        /\ last.ret.return_memory_range = last.inputs.return_memory_offset
        /\ last.checkpointed
        /\ last.ret.checkpoint = last.checkpoint
        /\ last.ret.checkpoint.journal_i = Len(last.at_checkpoint.journal)
        \* still open: neither committed nor reverted
        /\ journaled_state = last.after_value
        /\ journaled_state.depth = last.js_before.depth + 1
        /\ Len(journaled_state.journal) = last.ret.checkpoint.journal_i + 1
        /\ frames # <<>> /\ frames[Len(frames)] = last.ret
        /\ last.ret.interpreter.contract.bytecode = DbCode(last.inputs.bytecode_address)
        /\ last.ret.interpreter.contract.hash = hash_slow(DbCode(last.inputs.bytecode_address))
        /\ last.ret.interpreter.contract.input = last.inputs.input
        /\ last.ret.interpreter.gas = Gas_new(last.inputs.gas_limit)
        /\ last.ret.interpreter.is_static = last.inputs.is_static

C5_Witness ==
    /\ C5_Case
    /\ last.ret.kind = "Frame"
    /\ last.inputs.is_static
    /\ last.inputs.gas_limit > 0
    /\ last.ret.interpreter.contract.bytecode = MockBytecode

(***************************************************************************)
(* C6: within the depth limit, with the value step succeeding, no          *)
(* precompile at bytecode_address and empty code there, the call commits   *)
(* its checkpoint and returns the Result Stop with all the gas and no      *)
(* output; what the value step did persists: the target is loaded and      *)
(* touched for Transfer(0), the balances are moved for Transfer(v > 0).    *)
(***************************************************************************)
C6_Case ==
    /\ IsCall
    /\ DepthOk
    /\ ValueStepSucceeds
    /\ last.inputs.bytecode_address \notin last.registry
    /\ DbCode(last.inputs.bytecode_address) = EmptyBytes

C6_Moved(a) ==
    (IF a = last.inputs.target_address THEN last.inputs.value.value ELSE 0)
    - (IF a = last.inputs.caller THEN last.inputs.value.value ELSE 0)

C6_Stop ==
    C6_Case =>
        /\ last.ret.kind = "Result"
        /\ last.ret.result.result = "Stop"
        /\ GasUnchanged
        /\ last.ret.result.output = EmptyBytes
        /\ last.checkpointed
        /\ journaled_state.depth = last.js_before.depth
        /\ journaled_state = checkpoint_commit(last.after_value)
        /\ (last.inputs.value.kind = "Transfer" /\ last.inputs.value.value = 0) =>
              /\ journaled_state.state[last.inputs.target_address].present
              /\ journaled_state.state[last.inputs.target_address].warm
              /\ journaled_state.state[last.inputs.target_address].touched
              /\ \A a \in Address : Balance(journaled_state, a) = Balance(last.js_before, a)
        /\ (last.inputs.value.kind = "Transfer" /\ last.inputs.value.value > 0) =>
              \A a \in Address :
                 Balance(journaled_state, a) = Balance(last.js_before, a) + C6_Moved(a)

C6_Witness ==
    /\ C6_Case
    /\ last.ret.result.result = "Stop"
    /\ last.inputs.value.kind = "Transfer"
    /\ last.inputs.value.value > 0
    /\ last.inputs.caller # last.inputs.target_address
    /\ Balance(journaled_state, last.inputs.target_address)
           = Balance(last.js_before, last.inputs.target_address) + last.inputs.value.value

(***************************************************************************)
(* C7: in the L1 and in the L2 registry enabled(a, b), and                 *)
(* a.is_enabled_in(b), hold exactly when the discriminant of a is at least *)
(* that of b; the relation is reflexive, antisymmetric, transitive, total. *)
(***************************************************************************)
C7_EnabledIsOrder ==
    reg_last.op = "enabled" =>
        LET r == reg_last.registry
            a == reg_last.our
            b == reg_last.other
        IN  /\ reg_last.result <=> as_u8(r, a) >= as_u8(r, b)
            /\ reg_last.method = reg_last.result
            /\ enabled(r, a, a)
            /\ (reg_last.result /\ enabled(r, b, a)) => a = b
            /\ \A c \in SpecIds(r) : (reg_last.result /\ enabled(r, b, c)) => enabled(r, a, c)
            /\ reg_last.result \/ enabled(r, b, a)

C7_Witness ==
    /\ reg_last.op = "enabled"
    /\ reg_last.registry = "L1"
    /\ reg_last.our = "LATEST"
    /\ reg_last.other = "LATEST"
    /\ reg_last.result

(***************************************************************************)
(* C8: display-name round trip: for every SpecId s of the L1 and of the L2 *)
(* registry, parsing the display name of s yields s.                       *)
(***************************************************************************)
C8_RoundTrip ==
    reg_last.op = "display" => reg_last.parsed = reg_last.spec_id

(***************************************************************************)
(* C9: spec_to_generic handles every runtime SpecId, evaluates the         *)
(* expression once, and binds SPEC to a carrier whose SPEC_ID is FRONTIER  *)
(* for FRONTIER_THAWING, HOMESTEAD for DAO_FORK, PETERSBURG for            *)
(* CONSTANTINOPLE, ISTANBUL for MUIR_GLACIER, LONDON for ARROW_GLACIER and *)
(* GRAY_GLACIER, and the SpecId itself for every other id.                 *)
(***************************************************************************)
C9_Expected(s) ==
    CASE s = "FRONTIER_THAWING" -> "FRONTIER"
      [] s = "DAO_FORK" -> "HOMESTEAD"
      [] s = "CONSTANTINOPLE" -> "PETERSBURG"
      [] s = "MUIR_GLACIER" -> "ISTANBUL"
      [] s \in {"ARROW_GLACIER", "GRAY_GLACIER"} -> "LONDON"
      [] OTHER -> s

C9_SpecToGeneric ==
    reg_last.op = "spec_to_generic" =>
        /\ reg_last.handled
        /\ reg_last.evaluations = 1
        /\ reg_last.SPEC_ID = C9_Expected(reg_last.spec_id)

C9_Witness ==
    /\ reg_last.op = "spec_to_generic"
    /\ reg_last.registry = "L1"
    /\ reg_last.spec_id = "CONSTANTINOPLE"
    /\ reg_last.SPEC = "PetersburgSpec"
    /\ reg_last.SPEC_ID = "PETERSBURG"

(***************************************************************************)
(* C10: in the L2 registry BEDROCK and REGOLITH enable MERGE but not       *)
(* SHANGHAI, CANYON enables SHANGHAI, BEDROCK and REGOLITH but not CANCUN, *)
(* ECOTONE enables CANCUN and the earlier L2 forks but not PRAGUE, and no  *)
(* SpecId but LATEST enables LATEST; the carrier types answer the same.    *)
(***************************************************************************)
C10_Forks == {"BEDROCK", "REGOLITH", "CANYON", "ECOTONE"}

C10_Enables ==
    [BEDROCK |-> {"MERGE", "BEDROCK"},
     REGOLITH |-> {"MERGE", "BEDROCK", "REGOLITH"},
     CANYON |-> {"MERGE", "SHANGHAI", "BEDROCK", "REGOLITH", "CANYON"},
     ECOTONE |-> {"MERGE", "SHANGHAI", "CANCUN", "BEDROCK", "REGOLITH", "CANYON", "ECOTONE"}]

C10_EnablesNot ==
    [BEDROCK |-> {"SHANGHAI", "CANCUN", "REGOLITH", "LATEST"},
     REGOLITH |-> {"SHANGHAI", "CANCUN", "LATEST"},
     CANYON |-> {"CANCUN", "LATEST"},
     ECOTONE |-> {"PRAGUE", "LATEST"}]

C10_CarrierOf ==
    [BedrockSpec |-> "BEDROCK", RegolithSpec |-> "REGOLITH",
     CanyonSpec |-> "CANYON", EcotoneSpec |-> "ECOTONE"]

C10_Answer(our, other, result) ==
    /\ (our \in C10_Forks /\ other \in C10_Enables[our]) => result
    /\ (our \in C10_Forks /\ other \in C10_EnablesNot[our]) => ~result
    /\ (our # "LATEST" /\ other = "LATEST") => ~result

C10_L2Between ==
    /\ (reg_last.op = "enabled" /\ reg_last.registry = "L2") =>
          /\ C10_Answer(reg_last.our, reg_last.other, reg_last.result)
          /\ C10_Answer(reg_last.our, reg_last.other, reg_last.method)
    /\ (reg_last.op = "carrier_enabled" /\ reg_last.registry = "L2") =>
          /\ reg_last.carrier \in DOMAIN C10_CarrierOf =>
                C10_Answer(C10_CarrierOf[reg_last.carrier], reg_last.spec_id, reg_last.result)
          /\ (reg_last.carrier # "LatestSpec" /\ reg_last.spec_id = "LATEST") => ~reg_last.result

C10_Witness ==
    /\ reg_last.op = "carrier_enabled"
    /\ reg_last.registry = "L2"
    /\ reg_last.carrier = "BedrockSpec"
    /\ reg_last.spec_id = "SHANGHAI"
    /\ ~reg_last.result

(***************************************************************************)
(* C11: the conversion of an L2 SpecId into an L1 SpecId is total over the *)
(* L2 enum; it maps BEDROCK and REGOLITH to MERGE, CANYON to SHANGHAI,     *)
(* ECOTONE to CANCUN, and every other L2 SpecId, LATEST included, to the   *)
(* L1 SpecId of the same name.                                             *)
(***************************************************************************)
C11_Expected(s) ==
    IF s \in {"BEDROCK", "REGOLITH"} THEN "MERGE"
    ELSE IF s = "CANYON" THEN "SHANGHAI"
    ELSE IF s = "ECOTONE" THEN "CANCUN"
    ELSE s

C11_IntoL1 ==
    reg_last.op = "into_l1" =>
        /\ reg_last.handled
        /\ reg_last.value \in Variants(L1_SpecId)
        /\ reg_last.value = C11_Expected(reg_last.spec_id)

C11_Witness ==
    /\ reg_last.op = "into_l1"
    /\ reg_last.spec_id = "REGOLITH"
    /\ reg_last.value = "MERGE"

(***************************************************************************)
(* C12: set_precompiles merges the addresses of the new registry into      *)
(* journaled_state.warm_preloaded_addresses: after the call the set is the *)
(* union of the set held before and the registry's address set, so every   *)
(* address pre-warmed before the call is still pre-warmed.                 *)
(***************************************************************************)
C12_Merges ==
    last.op = "set_precompiles" =>
        /\ journaled_state.warm_preloaded_addresses =
              last.js_before.warm_preloaded_addresses \cup addresses_set(last.registry)
        /\ last.js_before.warm_preloaded_addresses
              \subseteq journaled_state.warm_preloaded_addresses

(***************************************************************************)
(* C13: in the dummy host, over any sequence of sload and sstore calls,    *)
(* the is_cold flag reported is true exactly for the first access (sload   *)
(* or sstore) to a storage index and false for every later access to it.   *)
(***************************************************************************)
C13_Case ==
    /\ host_last.op \in {"sload", "sstore"}
    /\ ~host_last.seen.cleared

C13_ColdOnFirstAccess ==
    C13_Case =>
        (host_last.is_cold <=> host_last.index \notin host_last.seen.accessed)

C13_Witness ==
    /\ C13_Case
    /\ host_last.op = "sstore"
    /\ host_last.index \in host_last.seen.accessed
    /\ host_last.seen.stored[host_last.index] = U256_ZERO
    /\ ~host_last.is_cold

(***************************************************************************)
(* C18: the storage of the dummy host is read-your-writes.  Over any       *)
(* sequence of sload and sstore calls, sload(index) returns the value of   *)
(* the most recent sstore to that index, or zero if there was none;        *)
(* sstore(index, v) returns present_value equal to what sload would have   *)
(* returned just before it, new_value = v and original_value = 0.          *)
(***************************************************************************)
C18_Case ==
    /\ host_last.op \in {"sload", "sstore"}
    /\ ~host_last.seen.cleared

C18_ReadYourWrites ==
    C18_Case =>
        /\ host_last.op = "sload" =>
              host_last.value = host_last.seen.stored[host_last.index]
        /\ host_last.op = "sstore" =>
              /\ host_last.result.present_value = host_last.seen.stored[host_last.index]
              /\ host_last.result.new_value = host_last.value
              /\ host_last.result.original_value = 0
        /\ \A i \in StorageIndex :
              sload(storage, i).value = host_history.stored[i]

C18_Witness ==
    /\ C18_Case
    /\ host_last.op = "sstore"
    /\ host_last.value = 1
    /\ host_last.seen.stored[host_last.index] = 2
    /\ host_last.result.present_value = 2

(***************************************************************************)
(* C14: value handling of make_call_frame.  For Transfer(0) the target     *)
(* account is loaded and touched and no balance changes; for Apparent(_)   *)
(* the value step loads and touches no account and no balance changes;     *)
(* only Transfer(v) with v > 0 moves balance: the caller is debited and    *)
(* target_address credited by exactly v.                                   *)
(***************************************************************************)
C14_Case == IsCall /\ last.checkpointed

\* what the value step of the last call moved into (+) or out of (-) account a
C14_Delta(a) ==
    (IF a = last.inputs.target_address THEN last.inputs.value.value ELSE 0)
    - (IF a = last.inputs.caller THEN last.inputs.value.value ELSE 0)

C14_OutOfFunds ==
    last.ret.kind = "Result" /\ last.ret.result.result = "OutOfFunds"

C14_ValueHandling ==
    /\ C14_Case =>
          LET before == checkpoint(last.at_checkpoint).js
              after == last.after_value
              inputs == last.inputs
          IN  /\ (inputs.value.kind = "Transfer" /\ inputs.value.value = 0) =>
                    /\ after.state[inputs.target_address].present
                    /\ after.state[inputs.target_address].touched
                    /\ \A a \in Address : Balance(after, a) = Balance(before, a)
                    /\ \A a \in Address \ {inputs.target_address} :
                          after.state[a] = before.state[a]
              /\ inputs.value.kind = "Apparent" => after = before
              /\ (inputs.value.kind = "Transfer" /\ inputs.value.value > 0
                    /\ ~C14_OutOfFunds) =>
                    \A a \in Address :
                        Balance(after, a) = Balance(before, a) + C14_Delta(a)
    /\ (IsCall /\ \E a \in Address :
                    Balance(journaled_state, a) # Balance(last.js_before, a)) =>
          /\ last.inputs.value.kind = "Transfer"
          /\ last.inputs.value.value > 0

C14_Witness ==
    /\ C14_Case
    /\ last.inputs.value = [kind |-> "Transfer", value |-> 1]
    /\ last.inputs.caller # last.inputs.target_address
    /\ ~C14_OutOfFunds
    /\ Balance(last.after_value, last.inputs.caller)
          = Balance(last.at_checkpoint, last.inputs.caller) - 1
    /\ Balance(last.after_value, last.inputs.target_address)
          = Balance(last.at_checkpoint, last.inputs.target_address) + 1

(***************************************************************************)
(* C15: precompile gas accounting.  A precompile that succeeds with        *)
(* gas_used <= gas limit gives Return with the precompile's output bytes   *)
(* and remaining = limit - gas_used; with gas_used > gas limit             *)
(* (record_cost answers false) it gives PrecompileOOG with empty output    *)
(* and the remaining gas consumed (remaining = 0).  In every case          *)
(* remaining <= limit.                                                     *)
(***************************************************************************)
C15_Case == IsCall /\ last.precompile_called /\ last.ret.kind = "Result"

C15_GasAccounting ==
    C15_Case =>
        LET result == last.ret.result
            gas_used == last.outcome.gas_used
            limit == last.inputs.gas_limit
        IN  /\ result.gas.limit = limit
            /\ result.gas.remaining <= result.gas.limit
            /\ last.outcome.kind = "Ok" =>
                  IF gas_used <= limit
                  THEN /\ result.result = "Return"
                       /\ result.output = last.outcome.bytes
                       /\ result.gas.remaining = limit - gas_used
                  ELSE /\ result.result = "PrecompileOOG"
                       /\ result.output = EmptyBytes
                       /\ result.gas.remaining = 0

C15_Witness ==
    /\ C15_Case
    /\ last.outcome.kind = "Ok"
    /\ last.outcome.gas_used = 5
    /\ last.inputs.gas_limit = 3
    /\ last.ret.result.result = "PrecompileOOG"
    /\ last.ret.result.gas.remaining = 0

(***************************************************************************)
(* C16: when the precompile reports a fatal error, make_call_frame returns *)
(* Err(EVMError::Precompile(msg)) with the same message, neither a Frame   *)
(* nor a Result, and neither commits nor reverts the checkpoint it took:   *)
(* depth stays one above its value before the call and the effects of the  *)
(* value step (touch, transfer) are still present.                         *)
(***************************************************************************)
C16_Case == IsCall /\ last.precompile_called /\ last.outcome.kind = "Fatal"

C16_Moved(a) ==
    IF last.inputs.value.kind = "Transfer"
    THEN (IF a = last.inputs.target_address THEN last.inputs.value.value ELSE 0)
         - (IF a = last.inputs.caller THEN last.inputs.value.value ELSE 0)
    ELSE 0

C16_FatalError ==
    C16_Case =>
        /\ last.ret.kind = "Err"
        /\ last.ret.error = <<"Precompile", last.outcome.msg>>
        /\ last.checkpointed
        /\ journaled_state.depth = last.js_before.depth + 1
        /\ Len(journaled_state.journal) = Len(last.at_checkpoint.journal) + 1
        /\ journaled_state = last.after_value
        /\ last.inputs.value = [kind |-> "Transfer", value |-> 0] =>
              journaled_state.state[last.inputs.target_address].touched
        /\ \A a \in Address :
              Balance(journaled_state, a) = Balance(last.js_before, a) + C16_Moved(a)

C16_Witness ==
    /\ C16_Case
    /\ last.ret.kind = "Err"
    /\ last.inputs.value = [kind |-> "Transfer", value |-> 1]
    /\ last.inputs.caller # last.inputs.target_address
    /\ Balance(journaled_state, last.inputs.target_address)
          = Balance(last.js_before, last.inputs.target_address) + 1
    /\ journaled_state.depth = last.js_before.depth + 1

(***************************************************************************)
(* C17: whenever the database reports an error during make_call_frame (in  *)
(* load_code of bytecode_address, in load_account of the target for        *)
(* Transfer(0), or in transfer for Transfer(v > 0)), make_call_frame       *)
(* returns Err(EVMError::Database(e)) carrying that error, never a Frame   *)
(* or a Result, and the precompile is not invoked; when the error comes    *)
(* from load_code, no checkpoint has been taken and depth is unchanged.    *)
(***************************************************************************)
\* the accounts the last call asks the database for: those it loads that
\* the journaled state did not hold before the call
C17_Asked ==
    {a \in Address :
        /\ ~last.js_before.state[a].present
        /\ \/ a = last.inputs.bytecode_address
           \/ /\ last.inputs.value = [kind |-> "Transfer", value |-> 0]
              /\ a = last.inputs.target_address
           \/ /\ last.inputs.value.kind = "Transfer"
              /\ last.inputs.value.value > 0
              /\ a \in {last.inputs.caller, last.inputs.target_address}}

\* the database reports an error during the last call
C17_Case == IsCall /\ DepthOk /\ C17_Asked \cap last.db_error # {}

C17_FromLoadCode == last.inputs.bytecode_address \in last.db_error

C17_DatabaseError ==
    /\ C17_Case =>
          /\ last.ret.kind = "Err"
          /\ \E e \in C17_Asked \cap last.db_error : last.ret.error = <<"Database", e>>
          /\ ~last.precompile_called
          /\ C17_FromLoadCode =>
                /\ ~last.checkpointed
                /\ journaled_state.depth = last.js_before.depth
                /\ Len(journaled_state.journal) = Len(last.js_before.journal)
    /\ (IsCall /\ last.ret.kind = "Err" /\ last.ret.error[1] = "Database") => C17_Case

C17_Witness ==
    /\ C17_Case
    /\ ~C17_FromLoadCode
    /\ last.inputs.bytecode_address \in last.registry
    /\ last.inputs.value = [kind |-> "Transfer", value |-> 1]
    /\ last.ret = [kind |-> "Err", error |-> <<"Database", last.inputs.caller>>]

(***************************************************************************)
(* C19: the call-tree depth is bounded by CALL_STACK_LIMIT.  Starting from *)
(* depth 0, over any sequence of make_call_frame calls (each returned      *)
(* Frame keeps its checkpoint open) interleaved with frame completions     *)
(* (commit or revert of the innermost open frame), journaled_state.depth() *)
(* never exceeds 1024: at most 1024 call frames are open at the same time. *)
(***************************************************************************)
C19_DepthWithinLimit ==
    /\ depth_of(journaled_state) <= CALL_STACK_LIMIT
    /\ Len(frames) <= CALL_STACK_LIMIT

\* as amended: depth never exceeds CALL_STACK_LIMIT + 1, a call made at a
\* depth above CALL_STACK_LIMIT is refused, and depth counts the open frames
C19_DepthWithinLimitPlusOne ==
    /\ depth_of(journaled_state) <= CALL_STACK_LIMIT + 1
    /\ Len(frames) = depth_of(journaled_state)
    /\ (last.op = "nested_call" /\ last.depth_before > CALL_STACK_LIMIT) =>
          /\ last.result = "CallTooDeep"
          /\ depth_of(journaled_state) = last.depth_before

C19_Witness ==
    /\ last.op = "nested_call"
    /\ last.depth_before = CALL_STACK_LIMIT + 1
    /\ last.result = "CallTooDeep"
    /\ Len(frames) = CALL_STACK_LIMIT + 1

(***************************************************************************)
(* C20: checkpoint balance of make_call_frame.  For every call that        *)
(* returns Ok(Result) (CallTooDeep, OutOfFunds, Stop or a precompile       *)
(* result) depth after the call equals depth before it, each checkpoint    *)
(* taken having been committed or reverted once; for every call that       *)
(* returns Ok(Frame) depth after equals depth before plus one.  Depth      *)
(* never becomes negative.                                                 *)
(***************************************************************************)
\* the journal frames opened and not closed by the last call
C20_OpenedFrames == Len(journaled_state.journal) - Len(last.js_before.journal)

C20_CheckpointBalance ==
    /\ depth_of(journaled_state) >= 0
    /\ (IsCall /\ last.ret.kind = "Result") =>
          /\ last.ret.result.result \in
                {"CallTooDeep", "OutOfFunds", "Stop", "Return",
                 "PrecompileOOG", "PrecompileError"}
          /\ depth_of(journaled_state) = depth_of(last.js_before)
          /\ C20_OpenedFrames = 0
    /\ (IsCall /\ last.ret.kind = "Frame") =>
          /\ depth_of(journaled_state) = depth_of(last.js_before) + 1
          /\ C20_OpenedFrames = 1

C20_Witness ==
    /\ IsCall
    /\ last.checkpointed
    /\ last.ret.kind = "Result"
    /\ last.ret.result.result = "Stop"
    /\ depth_of(last.after_value) = depth_of(last.js_before) + 1
    /\ depth_of(journaled_state) = depth_of(last.js_before)

(***************************************************************************)
(* C21: specialization agrees with the runtime comparison.  For every      *)
(* runtime SpecId s and every SpecId x that has its own carrier type, the  *)
(* carrier SPEC bound by spec_to_generic for s answers SPEC::enabled(x)    *)
(* with the same boolean as SpecId::enabled(s, x), in both registries.     *)
(***************************************************************************)
C21_Case == reg_last.op = "specialized_enabled"

C21_SpecializationAgrees ==
    C21_Case => (reg_last.carrier_answer <=> reg_last.runtime_answer)

\* as amended: the two agree except for s = CONSTANTINOPLE, which is bound to
\* PetersburgSpec, asked about x = PETERSBURG: the carrier says enabled, the
\* runtime comparison says not
C21_Overridden ==
    /\ reg_last.spec_id = "CONSTANTINOPLE"
    /\ reg_last.other = "PETERSBURG"

C21_AgreesButConstantinople ==
    C21_Case =>
        IF C21_Overridden
        THEN /\ reg_last.SPEC = "PetersburgSpec"
             /\ reg_last.carrier_answer
             /\ ~reg_last.runtime_answer
        ELSE reg_last.carrier_answer <=> reg_last.runtime_answer

C21_Witness ==
    /\ C21_Case
    /\ reg_last.registry = "L2"
    /\ reg_last.spec_id = "GRAY_GLACIER"
    /\ reg_last.SPEC = "LondonSpec"
    /\ reg_last.other = "LONDON"
    /\ reg_last.carrier_answer
    /\ reg_last.runtime_answer

(***************************************************************************)
(* C22: the L2-to-L1 conversion preserves L1 feature gating and order.     *)
(* For all L2 SpecIds a, b, enabled(a, b) implies L1                       *)
(* enabled(from(a), from(b)) (monotone), and for every L2 SpecId s and     *)
(* every L1 SpecId x (taken as the L2 id of the same name), L2             *)
(* enabled(s, x) holds exactly when L1 enabled(from(s), x) holds.          *)
(***************************************************************************)
C22_Case == reg_last.op = "into_l1_enabled"

C22_ConversionPreservesGating ==
    C22_Case =>
        /\ reg_last.l2_answer => reg_last.l1_answer
        /\ reg_last.other_is_l1 =>
              (reg_last.l2_answer <=> reg_last.l1_answer_by_name)

C22_Witness ==
    /\ C22_Case
    /\ reg_last.our = "REGOLITH"
    /\ reg_last.other = "SHANGHAI"
    /\ reg_last.from_our = "MERGE"
    /\ reg_last.other_is_l1
    /\ ~reg_last.l2_answer
    /\ ~reg_last.l1_answer_by_name

====
